---- MODULE Spec2Model ----
(***************************************************************************)
(* A model of lumail's CMaildir (src/src/maildir.cc): one folder object,   *)
(* the on-disk directories cur/ and new/ under its path, the clock, the    *)
(* IMAP proxy and the other mail agents that write into the same folder.   *)
(* Strings are sequences of one-character strings.                         *)
(***************************************************************************)
EXTENDS Integers, Sequences, FiniteSets, TLC

VARIABLES m_path, m_imap, m_modified, m_total, m_unread,
          disk, clock, pc, frame, call, hist, lastScan, genlog

vars == <<m_path, m_imap, m_modified, m_total, m_unread,
          disk, clock, pc, frame, call, hist, lastScan, genlog>>

obj == <<m_path, m_imap, m_modified, m_total, m_unread>>

(* ------------------------------ bounds --------------------------------- *)

\* Largest modification time a directory reaches: every write to a
\* directory raises its time, so this also bounds the number of writes.
MaxMtime == 3

\* How often the clock advances past its first value.
MaxTicks == 1

\* rand() returns a value in 0..MaxRand.
MaxRand == 1

\* How often bump_mtime() may be called.
MaxBump == 2

(* ------------------------------ strings -------------------------------- *)

Digit(d) == <<"0", "1", "2", "3", "4", "5", "6", "7", "8", "9">>[d + 1]

RECURSIVE Dec(_)
\* operator<< of a non-negative integer on a stringstream: decimal digits.
Dec(n) == IF n < 10 THEN <<Digit(n)>> ELSE Dec(n \div 10) \o <<Digit(n % 10)>>

IsPrefix(p, s) == Len(p) <= Len(s) /\ SubSeq(s, 1, Len(p)) = p

IsSuffix(p, s) == Len(p) <= Len(s) /\ SubSeq(s, Len(s) - Len(p) + 1, Len(s)) = p

Max2(a, b) == IF a > b THEN a ELSE b

(* ------------------------------ inputs --------------------------------- *)

Dirs == {"cur", "new"}

\* Folder names a CMaildir is constructed with: the empty path, an absolute
\* path, and a name without a leading "/".
Paths == { <<>>, <<"/", "m">>, <<"m", "y", "f", "o", "l", "d", "e", "r">> }

\* Paths of the messages handed to saveMessage.
MsgPaths == { <<"/", "s">> }

\* Replies of the IMAP proxy, the empty reply included.
Replies == { <<>>, <<"O", "K">>, <<"N", "O">> }

\* m_total and m_unread are not set by the constructor: until update_cache()
\* assigns them they hold whatever the memory of the object held, any of the
\* values in Uninit.  Which one is not known before the member is read:
\* Indeterminate marks a member neither assigned nor read so far, and the
\* first read settles the value, which later reads find again.
Indeterminate == -1

Uninit == { -7, 5 }

ReadInt(v) == IF v = Indeterminate THEN Uninit ELSE {v}

\* The member has not been assigned between two states: it has its old
\* value, or a read has settled the value it had all along.
NotAssigned(old, new) == new = old \/ (old = Indeterminate /\ new \in Uninit)

\* Values time(NULL) takes.
Clocks == 9 .. (9 + MaxTicks)

\* Result of gethostname().
hostname == <<"h">>

(* --------------------------- the file system --------------------------- *)

\* "/cur" and "/new", as appended to the folder path by last_modified().
SubDir(d) == IF d = "cur" THEN <<"/", "c", "u", "r">> ELSE <<"/", "n", "e", "w">>

\* m_path + "/cur/" and m_path + "/new/", as built by getMessages() and
\* generate_filename().
Prefix(d) == m_path \o SubDir(d) \o <<"/">>

\* The directory markers CDirectory::entries yields besides the files: the
\* prefix itself, "." and "..".
DirMarkers(d) == <<Prefix(d), Prefix(d) \o <<".">>, Prefix(d) \o <<".", ".">>>>

RECURSIVE SetToSeq(_)
SetToSeq(S) == IF S = {} THEN <<>>
               ELSE LET x == CHOOSE y \in S : TRUE IN <<x>> \o SetToSeq(S \ {x})

\* CDirectory::entries(path): the paths of everything in the directory, the
\* markers included; nothing when the directory cannot be opened.
entries(d) ==
    IF disk.ok[d]
    THEN DirMarkers(d) \o SetToSeq({Prefix(d) \o n : n \in disk.files[d]})
    ELSE <<>>

\* CFile::is_directory(path).
is_directory(p) ==
    \E d \in Dirs : disk.ok[d] /\ \E i \in 1..3 : DirMarkers(d)[i] = p

\* CFile::exists(path).
exists(p) ==
    \/ is_directory(p)
    \/ \E d \in Dirs : disk.ok[d] /\ \E n \in disk.files[d] : Prefix(d) \o n = p

\* CFile::is_maildir(path).
is_maildir == disk.maildir

\* CMessage::is_new(): a message is new when it lies under new/ or carries
\* the N flag.
is_new(p) == IsPrefix(Prefix("new"), p) \/ IsSuffix(<<",", "N">>, p)

\* The files of a directory, none when it cannot be opened.
DirFiles(d) == IF disk.ok[d] THEN disk.files[d] ELSE {}

\* Number of entries of cur/ and new/ that are not directories, and how many
\* of those are new: the folder as it is now.
TrueTotal == Cardinality(DirFiles("cur")) + Cardinality(DirFiles("new"))

TrueUnread ==
    Cardinality({n \in DirFiles("cur") : is_new(Prefix("cur") \o n)})
  + Cardinality({n \in DirFiles("new") : is_new(Prefix("new") \o n)})

(* ------------------------- CMaildir: the cache ------------------------- *)

\* The round keeping the time of the directory it looked at last.
StatStep_Latest(last, d) == IF disk.ok[d] THEN disk.mtime[d] ELSE last

\* The round that keeps the first time it was given.
StatStep_First(last, d) ==
    IF disk.ok[d] /\ last = 0 THEN disk.mtime[d] ELSE last

\* One round of the loop of last_modified(): stat the directory and keep
\* its time when it is more recent.
StatStep(last, d) ==
    IF disk.ok[d] /\ disk.mtime[d] > last THEN disk.mtime[d] ELSE last

last_modified ==
    IF m_imap THEN m_modified
    ELSE StatStep(StatStep(0, "cur"), "new")

\* getMessages() searching new/ alone.
getMessages_NewOnly ==
    SelectSeq(entries("new"), LAMBDA f : ~ is_directory(f))

\* getMessages() searching new/ before cur/.
getMessages_NewFirst ==
    SelectSeq(entries("new") \o entries("cur"), LAMBDA f : ~ is_directory(f))

\* getMessages() without its test for directories.
getMessages_Unfiltered == entries("cur") \o entries("new")

\* One round of the loop of getMessages(): the entries of one directory
\* that are no directories.
ScanDir(d) == SelectSeq(entries(d), LAMBDA f : ~ is_directory(f))

\* The paths getMessages() wraps in CMessage objects.
getMessages ==
    SelectSeq(entries("cur") \o entries("new"), LAMBDA f : ~ is_directory(f))

CountNew(all) == Cardinality({i \in 1..Len(all) : is_new(all[i])})

\* update_cache() without its early return.
CacheHit_Never == FALSE

\* The test of update_cache() that ends it without a scan.
CacheHit == last_modified = m_modified

\* update_cache() treating every folder as a local one: it compares with
\* the times on disk and scans whatever m_imap says.
update_cache_OnDisk ==
    LET last_mod == StatStep(StatStep(0, "cur"), "new")
    IN  IF last_mod = m_modified
        THEN [modified |-> m_modified, total |-> m_total, unread |-> m_unread,
              scans |-> 0, listing |-> lastScan]
        ELSE LET all == getMessages
             IN  [modified |-> last_mod, total |-> Len(all),
                  unread |-> CountNew(all), scans |-> 1, listing |-> all]

\* update_cache(): the members it leaves behind, the number of scans it
\* made and the listing of that scan.
update_cache ==
    IF m_imap \/ CacheHit
    THEN [modified |-> m_modified, total |-> m_total, unread |-> m_unread,
          scans |-> 0, listing |-> lastScan]
    ELSE LET all == getMessages
         IN  [modified |-> last_modified, total |-> Len(all),
              unread |-> CountNew(all), scans |-> 1, listing |-> all]

\* bump_mtime(): the new value of m_modified.
bump_mtime == m_modified + 1

(* --------------------------- CMaildir: saving -------------------------- *)

\* saveMessage() choosing its branch by the flag alone.
RemoteRoute_FlagOnly == m_imap

\* The test of saveMessage() that selects the IMAP branch.
RemoteRoute == m_imap \/ (m_path # <<>> /\ m_path[1] # "/")

SaveKeyword == <<"s", "a", "v", "e", "_", "m", "e", "s", "s", "a", "g", "e", " ">>

\* The line with the folder before the message.
SaveCmd_Swapped(msg_path) ==
    SaveKeyword \o m_path \o <<" ">> \o msg_path \o <<"\n">>

\* The line saveMessage() hands to the proxy.
SaveCmd(msg_path) == SaveKeyword \o msg_path \o <<" ">> \o m_path \o <<"\n">>

\* The flag generate_filename() appends.
Flag(isnew) == IF isnew THEN <<",", "N">> ELSE <<",", "S">>

\* The name without the draw.
FileName_NoDraw(t, r, isnew) ==
    Dec(t) \o <<".">> \o hostname \o Dec(t) \o <<":", "2">> \o Flag(isnew)

\* The name one round of the loop of generate_filename() builds from the
\* clock value t and the draw r.  The draw is written to the stringstream
\* that already holds the seconds, and the whole stream is appended.
FileName(t, r, isnew) ==
    LET since_epoch == Dec(t)
        ss          == since_epoch \o Dec(r)
    IN  since_epoch \o <<".">> \o hostname \o ss \o <<":", "2">> \o Flag(isnew)

\* The directory generate_filename() puts the name under.
TargetDir(isnew) == IF isnew THEN "new" ELSE "cur"

\* The names generate_filename() can build, per directory.
Candidates(d) ==
    {FileName(t, x % 1000, d = "new") : t \in Clocks, x \in 0..MaxRand}

\* Names other mail agents give the files they deliver: one without flags
\* and one that carries the N flag.
MailNames == { <<"a">>, <<"b", ":", "2", ",", "N">> }

\* The names a file written into cur/ or new/ by another mail agent may
\* have: a name of its own, or one generate_filename() can build too.
ExtNames(d) == MailNames \cup Candidates(d)

\* Names of files that another instance of the program saves into cur/ (any
\* name saveMessage() can choose), and of files an agent that names its
\* deliveries alike, with the draw 0, leaves in new/.
Collisions(d) ==
    IF d = "cur" THEN Candidates("cur")
    ELSE {FileName(t, 0, TRUE) : t \in Clocks}

(* ------------------------------ the state ------------------------------ *)

\* The layouts a folder path can have on disk: which of cur/ and new/ can
\* be opened, and whether the path passes CFile::is_maildir.
Layouts ==
    { [cur |-> TRUE,  new |-> TRUE,  maildir |-> TRUE],
      [cur |-> TRUE,  new |-> FALSE, maildir |-> FALSE],
      [cur |-> FALSE, new |-> TRUE,  maildir |-> FALSE],
      [cur |-> FALSE, new |-> FALSE, maildir |-> FALSE] }

\* What is recorded of the call in progress or last completed: its name,
\* whether update_cache() had run before it, the message it was given, the
\* count, flag or path it returned, the scans it made, the lines it sent to
\* the proxy with the proxy's reply, the copies it attempted, the filenames
\* it asked for, whether generate_filename() tested a name for existence and
\* whether it met a name that exists already,
\* how the path it returned relates to the one returned before it for the
\* same is_new ("first", "same" or "differs"), and whether the copy
\* replaced a file.
NewCall(op) ==
    [op |-> op, done |-> TRUE, again |-> hist.updated, msg |-> <<>>,
     ret |-> 0, ok |-> FALSE, path |-> <<>>,
     scans |-> 0, sent |-> <<>>, reply |-> <<>>, copies |-> <<>>,
     ngen |-> 0, probed |-> FALSE, retried |-> FALSE, rel |-> "first",
     clobbered |-> FALSE]

\* The frame of generate_filename() and of the saveMessage() that called it,
\* and the locals last_mod and all of an update_cache() that runs step by
\* step.
NoFrame == [caller |-> "none", is_new |-> FALSE, msg |-> <<>>, dst |-> <<>>,
            last |-> 0, all |-> <<>>]

Init ==
    /\ m_path \in Paths
    /\ m_imap \in BOOLEAN
    /\ m_modified = -1
    /\ m_total = Indeterminate
    /\ m_unread = Indeterminate
    /\ \E l \in Layouts :
          /\ m_path = <<>> => ~ l.maildir
          /\ disk = [ok      |-> [d \in Dirs |-> IF d = "cur" THEN l.cur ELSE l.new],
                     mtime   |-> [d \in Dirs |-> 1],
                     files   |-> [d \in Dirs |-> {}],
                     maildir |-> l.maildir]
    /\ clock = 9
    /\ pc = "idle"
    /\ frame = NoFrame
    /\ hist = [updated |-> FALSE, queried |-> FALSE, scanned |-> FALSE,
               fresh |-> TRUE, quiet |-> TRUE, above |-> TRUE,
               raced |-> FALSE]
    /\ call = [op |-> "construct", done |-> TRUE, again |-> FALSE, msg |-> <<>>,
               ret |-> 0, ok |-> FALSE, path |-> <<>>,
               scans |-> 0, sent |-> <<>>, reply |-> <<>>, copies |-> <<>>,
               ngen |-> 0, probed |-> FALSE, retried |-> FALSE, rel |-> "first",
     clobbered |-> FALSE]
    /\ lastScan = <<>>
    /\ genlog = <<>>

(* ----------------------------- count queries --------------------------- *)

\* hist records what has happened to the object so far: update_cache() has
\* run, a count query has returned, a scan has been made, and (fresh) the
\* object has only been queried since its construction, with no write to
\* the folder after the first update_cache().  Where update_cache() runs
\* step by step it records as well that no agent has written since the
\* latest call began (quiet), that every write so far set a time later than
\* every earlier time of both directories (above), and that an agent wrote
\* while a call was in progress (raced).

\* The effect of update_cache() on the object, with the record of the call:
\* a count query returns the member as update_cache() left it.
RunUpdateCache(op, u) ==
    /\ m_modified' = u.modified
    /\ lastScan' = u.listing
    /\ hist' = [hist EXCEPT !.updated = TRUE,
                            !.queried = @ \/ op \in {"total", "unread"},
                            !.scanned = @ \/ u.scans > 0]
    /\ \E v \in ReadInt(IF op = "total" THEN u.total
                        ELSE IF op = "unread" THEN u.unread ELSE 0) :
          /\ call' = [NewCall(op) EXCEPT !.scans = u.scans, !.ret = v]
          /\ m_total' = (IF op = "total" THEN v ELSE u.total)
          /\ m_unread' = (IF op = "unread" THEN v ELSE u.unread)
    /\ UNCHANGED <<m_path, m_imap, disk, clock, pc, frame, genlog>>

UpdateCache == pc = "idle" /\ RunUpdateCache("update_cache", update_cache)

TotalMessages == pc = "idle" /\ RunUpdateCache("total", update_cache)

UnreadMessages == pc = "idle" /\ RunUpdateCache("unread", update_cache)

BumpMtime ==
    /\ pc = "idle"
    /\ m_modified < MaxBump
    /\ m_modified' = bump_mtime
    /\ call' = NewCall("bump")
    /\ hist' = [hist EXCEPT !.fresh = FALSE]
    /\ UNCHANGED <<m_path, m_imap, m_total, m_unread, disk, clock, pc, frame,
                   lastScan, genlog>>

LastModified ==
    /\ pc = "idle"
    /\ call' = [NewCall("last_modified") EXCEPT !.ret = last_modified]
    /\ UNCHANGED <<obj, disk, clock, pc, frame, hist, lastScan, genlog>>

GetMessages ==
    /\ pc = "idle"
    /\ lastScan' = getMessages
    /\ hist' = [hist EXCEPT !.scanned = TRUE]
    /\ call' = [NewCall("getMessages") EXCEPT !.scans = 1]
    /\ UNCHANGED <<obj, disk, clock, pc, frame, genlog>>

(* ------------------------ writes to the directories -------------------- *)

\* The modification time a directory gets when it is written: later than
\* every time seen so far in the folder.
NextMtime == Max2(disk.mtime["cur"], disk.mtime["new"]) + 1

\* The disk after the file n has been written into directory d.
WithFile(d, n) ==
    [disk EXCEPT !.files[d] = @ \cup {n}, !.mtime[d] = NextMtime]

\* The disk after the file n has been removed from directory d.
WithoutFile(d, n) ==
    [disk EXCEPT !.files[d] = @ \ {n}, !.mtime[d] = NextMtime]

\* CFile::copy(src, dst): can succeed only when the source can be read and
\* dst names a file directly inside a directory that exists.
CopyTarget(dst) ==
    {<<d, n>> \in Dirs \X ExtNames("cur") :
        disk.ok[d] /\ dst = Prefix(d) \o n}

(* ------------------- generate_filename and saveMessage ----------------- *)

\* The record of the latest result of generate_filename().
Logged(entry) == <<entry>>

\* generate_filename() going on with a path that is no maildir.
FolderRejected_Never == FALSE

\* The test of generate_filename() that ends it with the empty string.
FolderRejected == ~ is_maildir

\* generate_filename(is_new) up to its loop: the check of the folder.
GenerateFilename(isnew) ==
    /\ pc = "idle"
    /\ IF FolderRejected
       THEN /\ call' = [NewCall("generate_filename") EXCEPT !.ngen = 1]
            /\ UNCHANGED <<pc, frame>>
       ELSE /\ pc' = "loop"
            /\ frame' = [NoFrame EXCEPT !.caller = "api", !.is_new = isnew]
            /\ call' = [NewCall("generate_filename") EXCEPT !.ngen = 1, !.done = FALSE]
    /\ UNCHANGED <<obj, disk, clock, hist, lastScan, genlog>>

\* saveMessage(msg) up to the loop of generate_filename(): the IMAP branch
\* as a whole, or the start of the local branch.
SaveMessage(msg) ==
    /\ pc = "idle"
    /\ IF RemoteRoute
       THEN /\ \E out \in Replies :
                 call' = [NewCall("saveMessage") EXCEPT
                              !.msg = msg, !.sent = <<SaveCmd(msg)>>,
                              !.reply = out, !.ok = TRUE]
            /\ UNCHANGED <<pc, frame>>
       ELSE /\ call' = [NewCall("saveMessage") EXCEPT
                             !.msg = msg, !.ngen = 1, !.done = FALSE]
            /\ frame' = [NoFrame EXCEPT !.caller = "save", !.msg = msg]
            /\ pc' = IF FolderRejected THEN "copy" ELSE "loop"
    /\ UNCHANGED <<obj, disk, clock, hist, lastScan, genlog>>

\* The loop of generate_filename() ending at its first name.
Unique_Always(full) == TRUE

\* The loop of generate_filename() taking no name at all.
Unique_Never(full) == FALSE

\* The test that ends the loop of generate_filename().
Unique(full) == ~ exists(full)

\* How a path returned by generate_filename() relates to the path the call
\* before it returned for the same is_new.
Relation(isnew, full) ==
    IF \E i \in 1..Len(genlog) : genlog[i].is_new = isnew
    THEN IF \E i \in 1..Len(genlog) :
                genlog[i].is_new = isnew /\ genlog[i].path = full
         THEN "same" ELSE "differs"
    ELSE "first"

\* One round of the loop of generate_filename(): read the clock, draw,
\* build the name and test for it.
GenLoop ==
    /\ pc = "loop"
    /\ \E x \in 0..MaxRand :
         LET r    == x % 1000
             file == FileName(clock, r, frame.is_new)
             full == Prefix(TargetDir(frame.is_new)) \o file
         IN  IF ~ Unique(full)
             THEN /\ call' = [call EXCEPT !.probed = TRUE, !.retried = TRUE]
                  /\ UNCHANGED <<pc, frame, genlog>>
             ELSE /\ genlog' = Logged([is_new |-> frame.is_new, path |-> full,
                                       t |-> clock, r |-> r])
                  /\ IF frame.caller = "api"
                     THEN /\ pc' = "idle"
                          /\ frame' = NoFrame
                          /\ call' = [call EXCEPT !.path = full, !.done = TRUE,
                                          !.probed = TRUE,
                                          !.rel = Relation(frame.is_new, full)]
                     ELSE /\ pc' = "copy"
                          /\ frame' = [frame EXCEPT !.dst = full]
                          /\ call' = [call EXCEPT !.path = full, !.probed = TRUE,
                                          !.rel = Relation(frame.is_new, full)]
    /\ UNCHANGED <<obj, disk, clock, hist, lastScan>>

\* The end of the local branch of saveMessage(): CFile::copy to the path
\* generate_filename() returned.
SaveCopy ==
    /\ pc = "copy"
    /\ \E readable \in BOOLEAN :
         LET tgt == CopyTarget(frame.dst)
             res == readable /\ tgt # {}
         IN  /\ IF res
                THEN LET dn == CHOOSE x \in tgt : TRUE
                     IN  /\ NextMtime <= MaxMtime
                         /\ disk' = WithFile(dn[1], dn[2])
                ELSE UNCHANGED disk
             /\ call' = [call EXCEPT !.copies = Append(@, frame.dst),
                                     !.ok = res, !.done = TRUE,
                                     !.clobbered = res /\ exists(frame.dst)]
    /\ hist' = [hist EXCEPT !.fresh = @ /\ (~ hist.updated \/ disk' = disk)]
    /\ pc' = "idle"
    /\ frame' = NoFrame
    /\ UNCHANGED <<obj, clock, lastScan, genlog>>

(* ---------------------------- the environment -------------------------- *)

\* Another mail agent writes a file into cur/ or new/.
ExtCreate(d, n) ==
    /\ disk.ok[d]
    /\ n \notin disk.files[d]
    /\ NextMtime <= MaxMtime
    /\ disk' = WithFile(d, n)
    /\ hist' = [hist EXCEPT !.fresh = @ /\ ~ hist.updated]
    /\ UNCHANGED <<obj, clock, pc, frame, call, lastScan, genlog>>

\* Another mail agent removes a file from cur/ or new/.
ExtDelete(d, n) ==
    /\ disk.ok[d]
    /\ n \in disk.files[d]
    /\ NextMtime <= MaxMtime
    /\ disk' = WithoutFile(d, n)
    /\ hist' = [hist EXCEPT !.fresh = @ /\ ~ hist.updated]
    /\ UNCHANGED <<obj, clock, pc, frame, call, lastScan, genlog>>

\* The modification time of cur/ or new/ is set, as utime() does, to a time
\* that need not be later than the times seen so far.
Touch(d, t) ==
    /\ disk.ok[d]
    /\ t # disk.mtime[d]
    /\ disk' = [disk EXCEPT !.mtime[d] = t]
    /\ hist' = [hist EXCEPT !.fresh = @ /\ ~ hist.updated]
    /\ UNCHANGED <<obj, clock, pc, frame, call, lastScan, genlog>>

\* A second passes.
Tick ==
    /\ clock < 9 + MaxTicks
    /\ clock' = clock + 1
    /\ UNCHANGED <<obj, disk, pc, frame, call, hist, lastScan, genlog>>

Next ==
    \/ UpdateCache
    \/ TotalMessages
    \/ UnreadMessages
    \/ BumpMtime
    \/ LastModified
    \/ GetMessages
    \/ \E isnew \in BOOLEAN : GenerateFilename(isnew)
    \/ \E msg \in MsgPaths : SaveMessage(msg)
    \/ GenLoop
    \/ SaveCopy
    \/ \E d \in Dirs : \E n \in ExtNames(d) : ExtCreate(d, n)
    \/ \E d \in Dirs : \E n \in ExtNames(d) : ExtDelete(d, n)
    \/ Tick

Spec == Init /\ [][Next]_vars

\* The count queries alone, with mail agents that deliver and remove mail.
NextCache ==
    \/ UpdateCache
    \/ TotalMessages
    \/ UnreadMessages
    \/ BumpMtime
    \/ LastModified
    \/ GetMessages
    \/ \E d \in Dirs : \E n \in MailNames : ExtCreate(d, n)
    \/ \E d \in Dirs : \E n \in MailNames : ExtDelete(d, n)

SpecCache == Init /\ [][NextCache]_vars

\* Saving alone, with mail agents that build their names as
\* generate_filename() does.
NextSave ==
    \/ \E isnew \in BOOLEAN : GenerateFilename(isnew)
    \/ \E msg \in MsgPaths : SaveMessage(msg)
    \/ GenLoop
    \/ SaveCopy
    \/ \E d \in Dirs : \E n \in Collisions(d) : ExtCreate(d, n)
    \/ Tick

SpecSave == Init /\ [][NextSave]_vars

(* ------------------------- claims on the cache ------------------------- *)

CountQuery == TotalMessages \/ UnreadMessages

IsCountQuery(c) == c.op \in {"total", "unread"}

\* The counts in the listing of the most recent scan.
ScanCount(op) == IF op = "total" THEN Len(lastScan) ELSE CountNew(lastScan)

\* C1: for a local folder, in every state after the first count query,
\* whenever m_modified equals last_modified() the cached total is the number
\* of files now in cur/ and new/ and the cached unread count is the number of
\* those that are new.
C1_CacheValidWhenTimesAgree ==
    (~ m_imap /\ hist.queried /\ m_modified = last_modified)
        => (ReadInt(m_total) = {TrueTotal} /\ ReadInt(m_unread) = {TrueUnread})

\* C2: for a local folder on which update_cache() has run, a count query
\* makes exactly one scan and stores last_modified() in m_modified when the
\* two differ, makes no scan and leaves the cache alone when they are equal;
\* and no count query makes more than one scan.
C2_OneScanWhenStale ==
    [][CountQuery =>
          /\ call'.scans <= 1
          /\ (~ m_imap /\ hist.updated) =>
                IF last_modified # m_modified
                THEN call'.scans = 1 /\ m_modified' = last_modified
                ELSE /\ call'.scans = 0
                     /\ m_modified' = m_modified
                     /\ NotAssigned(m_total, m_total')
                     /\ NotAssigned(m_unread, m_unread')]_vars

\* A count query that followed an earlier update_cache() and scanned again.
C2_Witness ==
    ~ m_imap /\ IsCountQuery(call) /\ call.again /\ call.scans = 1
             /\ m_modified > 1

\* C3: for a local folder, a count query returns the count found by the most
\* recent scan, and a scan has been made by the time it returns.
C3_ReturnsLastScan ==
    (~ m_imap /\ IsCountQuery(call))
        => (hist.scanned /\ call.ret = ScanCount(call.op))

\* C4: on a local folder that has only been queried since its construction,
\* totalMessages() returns the number of files in cur/ and new/ and
\* unreadMessages() the number of new ones (0 and 0 when there are none, or
\* no cur/ and new/ at all), and a count query made after the first one
\* makes no scan.
C4_FirstCounts ==
    (~ m_imap /\ hist.fresh /\ IsCountQuery(call))
        => /\ call.ret = (IF call.op = "total" THEN TrueTotal ELSE TrueUnread)
           /\ hist.scanned
           /\ call.again => call.scans = 0

\* The second count query on a fresh folder that holds read and unread mail.
C4_Witness ==
    /\ ~ m_imap /\ hist.fresh /\ call.op = "unread" /\ call.again
    /\ call.scans = 0 /\ call.ret = 1 /\ TrueTotal = 2 /\ m_total = 2
    /\ disk.files["cur"] # {}

\* C8: bump_mtime() adds one to m_modified on a remote folder and changes
\* nothing else; on a local folder it leaves m_modified as it is.
C8_BumpRemoteOnly ==
    [][BumpMtime =>
          /\ UNCHANGED <<m_path, m_imap, m_total, m_unread, disk>>
          /\ m_modified' = (IF m_imap THEN m_modified + 1 ELSE m_modified)]_vars

(* -------------------------- claims on saving --------------------------- *)

SaveMessageCall == \E msg \in MsgPaths : SaveMessage(msg)

\* C5: a completed saveMessage() has used one backend: when the folder was
\* constructed remote, or its path is not empty and does not start with "/",
\* it has sent one line to the proxy, asked for no filename and copied
\* nothing; otherwise it has attempted one copy and sent nothing.
C5_OneBackend ==
    (call.op = "saveMessage" /\ call.done) =>
        IF m_imap \/ (Len(m_path) > 0 /\ Head(m_path) # "/")
        THEN Len(call.sent) = 1 /\ call.ngen = 0 /\ Len(call.copies) = 0
        ELSE Len(call.copies) = 1 /\ Len(call.sent) = 0

\* The folder "myfolder", constructed as local, saved through the proxy.
C5_Witness ==
    /\ call.op = "saveMessage" /\ call.done /\ ~ m_imap
    /\ m_path = <<"m", "y", "f", "o", "l", "d", "e", "r">>
    /\ Len(call.sent) = 1 /\ call.copies = <<>>

\* C6: a saveMessage() that went through the proxy leaves m_modified
\* greater than it found it.
C6_RemoteSaveBumps ==
    [][(SaveMessageCall /\ RemoteRoute) => m_modified' > m_modified]_vars

\* C7: the line sent to the proxy is "save_message", a space, the message
\* path, a space, the folder path and a newline, and the call returns true
\* whatever the proxy replies.
C7_ProxyLine ==
    (call.op = "saveMessage" /\ call.sent # <<>>) =>
        LET cmd == call.sent[1]
            k   == 12
            m   == Len(call.msg)
            f   == Len(m_path)
        IN  /\ call.ok
            /\ Len(call.sent) = 1
            /\ Len(cmd) = k + 1 + m + 1 + f + 1
            /\ SubSeq(cmd, 1, k) =
                 <<"s", "a", "v", "e", "_", "m", "e", "s", "s", "a", "g", "e">>
            /\ cmd[k + 1] = " "
            /\ SubSeq(cmd, k + 2, k + 1 + m) = call.msg
            /\ cmd[k + 2 + m] = " "
            /\ SubSeq(cmd, k + 3 + m, k + 2 + m + f) = m_path
            /\ cmd[Len(cmd)] = "\n"

\* A save through the proxy that got the empty reply and returned true.
C7_Witness ==
    /\ call.op = "saveMessage" /\ call.sent # <<>> /\ call.reply = <<>>
    /\ call.ok /\ m_path # <<>>

\* The path lies directly under the directory of the folder named by dir.
DirectlyUnder(p, dir) ==
    LET pre == m_path \o <<"/">> \o dir \o <<"/">>
    IN  /\ IsPrefix(pre, p)
        /\ Len(p) > Len(pre)
        /\ \A i \in (Len(pre) + 1)..Len(p) : p[i] # "/"

\* C9: on a folder that passes the validity check, a round of the loop of
\* generate_filename() either meets a name that exists and goes round again,
\* or returns a path directly under new/ with the flag N (is_new) or under
\* cur/ with the flag S (otherwise) that names no existing file.
C9_ReturnedPath ==
    [][GenLoop =>
          \/ pc' = "loop" /\ call'.retried
          \/ /\ pc' # "loop"
             /\ is_maildir
             /\ ~ (\E d \in Dirs : call'.path \in
                       {m_path \o SubDir(d) \o <<"/">> \o n : n \in DirFiles(d)})
             /\ IF frame.is_new
                THEN /\ DirectlyUnder(call'.path, <<"n", "e", "w">>)
                     /\ call'.path[Len(call'.path)] = "N"
                ELSE /\ DirectlyUnder(call'.path, <<"c", "u", "r">>)
                     /\ call'.path[Len(call'.path)] = "S"]_vars

\* generate_filename(true) that met an existing name and then returned.
C9_Witness ==
    /\ call.op = "generate_filename" /\ call.done /\ call.retried
    /\ call.path # <<>> /\ call.path[Len(call.path)] = "N"

\* The round of the loop that returns, after an earlier call with the same
\* is_new has returned.
SecondReturn ==
    /\ GenLoop
    /\ pc' # "loop"
    /\ genlog # <<>>
    /\ genlog[1].is_new = frame.is_new

\* C10 as stated: two consecutive calls of generate_filename() with the same
\* is_new return two distinct names.
C10_AlwaysDistinct ==
    [][SecondReturn => genlog'[1].path # genlog[1].path]_vars

\* C10 as amended: two consecutive calls with the same is_new return the
\* same name exactly when their returning rounds read the same clock value
\* and the same draw, and they return distinct names when the file named by
\* the first call exists at the second call's test.
C10_DistinctUnlessSameDraw ==
    [][SecondReturn =>
          /\ (genlog'[1].path = genlog[1].path)
                <=> (genlog'[1].t = genlog[1].t /\ genlog'[1].r = genlog[1].r)
          /\ exists(genlog[1].path) => genlog'[1].path # genlog[1].path]_vars

\* A second call that returned another name within the same second, the
\* first name having been taken in between.
C10_Witness ==
    /\ call.op = "saveMessage" /\ call.rel = "differs" /\ call.retried
    /\ clock = 9 /\ pc = "copy"

\* C11: the name generate_filename() builds is the seconds, a dot, the host
\* name, the draw, ":2," and the flag N (is_new) or S, the seconds occurring
\* once and the draw being the only digits after the host name.
C11_NameTemplate ==
    \A i \in 1..Len(genlog) :
        LET g == genlog[i]
        IN  g.path = m_path \o <<"/">>
                     \o (IF g.is_new THEN <<"n", "e", "w">> ELSE <<"c", "u", "r">>)
                     \o <<"/">> \o Dec(g.t) \o <<".">> \o hostname \o Dec(g.r)
                     \o <<":", "2", ",">> \o (IF g.is_new THEN <<"N">> ELSE <<"S">>)

\* C12: on a folder that fails the validity check generate_filename()
\* returns the empty string at once, for either is_new, without a round of
\* its loop, without a test for existence and without a change to the
\* object or the folder.
C12_InvalidFolderEmpty ==
    [][(\E isnew \in BOOLEAN : GenerateFilename(isnew)) /\ ~ disk.maildir =>
          /\ call'.done /\ pc' = "idle"
          /\ call'.path = <<>>
          /\ ~ call'.probed /\ ~ call'.retried
          /\ UNCHANGED <<m_path, m_imap, m_modified, m_total, m_unread, disk>>]_vars

\* generate_filename() has returned the empty string on a folder that has
\* a cur/ but is no maildir.
C12_Witness ==
    /\ call.op = "generate_filename" /\ call.done /\ call.path = <<>>
    /\ ~ call.probed /\ ~ disk.maildir /\ disk.ok["cur"]

\* C13: a saveMessage() on the local branch for which generate_filename()
\* returned the empty string reports failure and has not called the copy
\* with an empty destination.
C13_NoCopyToEmptyPath ==
    (call.op = "saveMessage" /\ call.done /\ call.sent = <<>> /\ call.path = <<>>)
        => (~ call.ok /\ \A i \in 1..Len(call.copies) : call.copies[i] # <<>>)

(* ----------------------- saving, then listing -------------------------- *)

\* Saving and listing, with mail agents that deliver mail under names of
\* their own.
NextRound ==
    \/ \E msg \in MsgPaths : SaveMessage(msg)
    \/ GenLoop
    \/ SaveCopy
    \/ GetMessages
    \/ \E d \in Dirs : \E n \in MailNames : ExtCreate(d, n)
    \/ Tick

SpecRound == Init /\ [][NextRound]_vars

\* C14: a getMessages() that follows a saveMessage() whose copy succeeded
\* lists the path generate_filename(false) returned for that save, and that
\* path lies directly under cur/.
C14_SavedThenListed ==
    [][(GetMessages /\ call.op = "saveMessage" /\ call.done /\ call.ok
                    /\ call.copies # <<>>) =>
          /\ \E i \in 1..Len(lastScan') : lastScan'[i] = call.path
          /\ DirectlyUnder(call.path, <<"c", "u", "r">>)]_vars

\* A listing, made after a save, that holds the saved file beside a
\* delivered one.
C14_Witness ==
    /\ call.op = "getMessages" /\ genlog # <<>> /\ Len(lastScan) = 2
    /\ \E i \in 1..Len(lastScan) : lastScan[i] = genlog[1].path

(* ------------------- claims on listing and on times -------------------- *)

CurPath == m_path \o <<"/", "c", "u", "r", "/">>

NewPath == m_path \o <<"/", "n", "e", "w", "/">>

\* The paths of the files now in cur/ and in new/.
FilesOnDisk ==
    {CurPath \o n : n \in DirFiles("cur")} \cup {NewPath \o n : n \in DirFiles("new")}

\* C15: getMessages() returns one path for each file of cur/ and of new/,
\* those of cur/ before those of new/, none for the directories the listing
\* yields and nothing when neither directory can be listed, and leaves
\* m_modified, m_total and m_unread alone.
C15_ListsEveryFileOnce ==
    [][GetMessages =>
          /\ {lastScan'[i] : i \in 1..Len(lastScan')} = FilesOnDisk
          /\ Len(lastScan') = Cardinality(FilesOnDisk)
          /\ \A i, j \in 1..Len(lastScan') :
                (IsPrefix(NewPath, lastScan'[i]) /\ IsPrefix(CurPath, lastScan'[j]))
                    => j < i
          /\ (~ disk.ok["cur"] /\ ~ disk.ok["new"]) => lastScan' = <<>>
          /\ UNCHANGED <<m_modified, m_total, m_unread>>]_vars

\* A listing of a folder with a file in cur/ and a file in new/.
C15_Witness ==
    /\ call.op = "getMessages" /\ Len(lastScan) = 2
    /\ IsPrefix(CurPath, lastScan[1]) /\ IsPrefix(NewPath, lastScan[2])
    /\ disk.files["cur"] # {} /\ disk.files["new"] # {}

\* The times of the folder read and bumped, with agents that deliver mail
\* and set the times of the directories.
NextStat ==
    \/ LastModified
    \/ TotalMessages
    \/ BumpMtime
    \/ \E d \in Dirs : \E n \in MailNames : ExtCreate(d, n)
    \/ \E d \in Dirs : \E t \in 0..MaxMtime : Touch(d, t)

SpecStat == Init /\ [][NextStat]_vars

\* The modification time of a directory, 0 when it cannot be stat-ed.
TimeOf(d) == IF disk.ok[d] THEN disk.mtime[d] ELSE 0

\* C16: last_modified() returns m_modified on a remote folder and the later
\* of the times of cur/ and new/ on a local one, a directory that cannot be
\* stat-ed counting as 0; it leaves the cache alone; and setting the time of
\* the older directory to a time not later than the other's does not change
\* what it returns.
C16_LaterOfTwoTimes ==
    [][/\ LastModified =>
             /\ call'.ret = (IF m_imap THEN m_modified
                             ELSE IF TimeOf("cur") >= TimeOf("new")
                                  THEN TimeOf("cur") ELSE TimeOf("new"))
             /\ UNCHANGED <<m_modified, m_total, m_unread>>
       /\ \A d \in Dirs : \A o \in Dirs \ {d} : \A t \in 0..MaxMtime :
             (Touch(d, t) /\ ~ m_imap /\ disk.ok[o]
                  /\ disk.mtime[d] <= disk.mtime[o] /\ t <= disk.mtime[o])
                 => last_modified' = last_modified]_vars

\* last_modified() on a local folder whose cur/ is later than its new/,
\* the time of new/ having been set back.
C16_Witness ==
    /\ call.op = "last_modified" /\ ~ m_imap
    /\ disk.ok["cur"] /\ disk.ok["new"]
    /\ disk.mtime["cur"] = 2 /\ disk.mtime["new"] = 0 /\ call.ret = 2

\* C17: with another agent creating files in the folder at any point of a
\* local-route saveMessage(), the destination does not exist when the copy
\* begins, and no file of another agent is overwritten.
C17_NoOverwrite ==
    [][(SaveCopy /\ frame.dst # <<>>)
           => (~ exists(frame.dst) /\ ~ call'.clobbered)]_vars

(* ---------- update_cache() step by step, with agents writing ----------- *)

CacheOps == {"update_cache", "total", "unread"}

\* The end of update_cache() and of the count query that called it: the
\* members as they were left, and the member the query returns.
CacheReturn(op, scans, total, unread) ==
    /\ \E v \in ReadInt(IF op = "total" THEN total
                        ELSE IF op = "unread" THEN unread ELSE 0) :
          /\ call' = [NewCall(op) EXCEPT !.scans = scans, !.ret = v]
          /\ m_total' = (IF op = "total" THEN v ELSE total)
          /\ m_unread' = (IF op = "unread" THEN v ELSE unread)
    /\ pc' = "idle"
    /\ frame' = NoFrame

\* update_cache() is entered, by itself or from a count query; on an IMAP
\* folder it returns at once.
BeginCache(op) ==
    /\ pc = "idle"
    /\ IF m_imap
       THEN /\ CacheReturn(op, 0, m_total, m_unread)
            /\ hist' = [hist EXCEPT !.updated = TRUE, !.quiet = TRUE,
                           !.queried = @ \/ op \in {"total", "unread"}]
       ELSE /\ pc' = "stat_cur"
            /\ frame' = [NoFrame EXCEPT !.caller = op]
            /\ call' = [NewCall(op) EXCEPT !.done = FALSE]
            /\ hist' = [hist EXCEPT !.quiet = TRUE]
            /\ UNCHANGED <<m_total, m_unread>>
    /\ UNCHANGED <<m_path, m_imap, m_modified, disk, clock, lastScan, genlog>>

\* last_modified() stats cur/.
StatCur ==
    /\ pc = "stat_cur"
    /\ frame' = [frame EXCEPT !.last = StatStep(0, "cur")]
    /\ pc' = "stat_new"
    /\ UNCHANGED <<obj, disk, clock, call, hist, lastScan, genlog>>

\* last_modified() stats new/ and returns; update_cache() compares the time
\* with m_modified, returns when they agree and stores it when they differ.
StatNew ==
    /\ pc = "stat_new"
    /\ LET last_mod == StatStep(frame.last, "new")
       IN  IF last_mod = m_modified
           THEN /\ CacheReturn(frame.caller, 0, m_total, m_unread)
                /\ hist' = [hist EXCEPT !.updated = TRUE,
                               !.queried = @ \/ frame.caller \in {"total", "unread"}]
                /\ UNCHANGED m_modified
           ELSE /\ m_modified' = last_mod
                /\ pc' = "scan_cur"
                /\ frame' = [frame EXCEPT !.last = last_mod]
                /\ UNCHANGED <<m_total, m_unread, call, hist>>
    /\ UNCHANGED <<m_path, m_imap, disk, clock, lastScan, genlog>>

\* getMessages() lists cur/.
ScanCur ==
    /\ pc = "scan_cur"
    /\ frame' = [frame EXCEPT !.all = ScanDir("cur")]
    /\ pc' = "scan_new"
    /\ UNCHANGED <<obj, disk, clock, call, hist, lastScan, genlog>>

\* getMessages() lists new/ and returns; update_cache() counts.
ScanNew ==
    /\ pc = "scan_new"
    /\ LET all == frame.all \o ScanDir("new")
       IN  /\ CacheReturn(frame.caller, 1, Len(all), CountNew(all))
           /\ lastScan' = all
    /\ hist' = [hist EXCEPT !.updated = TRUE, !.scanned = TRUE,
                   !.queried = @ \/ frame.caller \in {"total", "unread"}]
    /\ UNCHANGED <<m_path, m_imap, m_modified, disk, clock, genlog>>

\* What a write at time t leaves in hist.
Written(t) ==
    [hist EXCEPT !.quiet = FALSE,
                 !.fresh = @ /\ ~ hist.updated,
                 !.raced = @ \/ pc # "idle",
                 !.above = @ /\ t > Max2(disk.mtime["cur"], disk.mtime["new"])]

\* Another mail agent writes a file into cur/ or new/ at time t, which is
\* later than every time the directory had before.
ExtCreateAt(d, n, t) ==
    /\ disk.ok[d]
    /\ n \notin disk.files[d]
    /\ t > disk.mtime[d]
    /\ disk' = [disk EXCEPT !.files[d] = @ \cup {n}, !.mtime[d] = t]
    /\ hist' = Written(t)
    /\ UNCHANGED <<obj, clock, pc, frame, call, lastScan, genlog>>

\* Another mail agent removes a file from cur/ or new/ at time t.
ExtDeleteAt(d, n, t) ==
    /\ disk.ok[d]
    /\ n \in disk.files[d]
    /\ t > disk.mtime[d]
    /\ disk' = [disk EXCEPT !.files[d] = @ \ {n}, !.mtime[d] = t]
    /\ hist' = Written(t)
    /\ UNCHANGED <<obj, clock, pc, frame, call, lastScan, genlog>>

NextRace ==
    \/ \E op \in CacheOps : BeginCache(op)
    \/ StatCur
    \/ StatNew
    \/ ScanCur
    \/ ScanNew
    \/ \E d \in Dirs : \E n \in MailNames : \E t \in 1..MaxMtime :
          ExtCreateAt(d, n, t)
    \/ \E d \in Dirs : \E n \in MailNames : \E t \in 1..MaxMtime :
          ExtDeleteAt(d, n, t)

SpecRace == Init /\ [][NextRace]_vars

\* The count a query has to return for the folder as it is now.
TrueCount(op) == IF op = "total" THEN TrueTotal ELSE TrueUnread

\* C18 as stated: a count query on a local folder during which no agent
\* wrote returns the true count, every write before it having raised the
\* time of the directory it wrote to above the earlier times of that
\* directory.
C18_QuietQueryIsTrue ==
    (IsCountQuery(call) /\ call.done /\ ~ m_imap /\ hist.quiet)
        => call.ret = TrueCount(call.op)

\* C18 as it holds: the same when every write raised the time of the
\* directory it wrote to above the earlier times of both directories.
C18_QuietQueryIsTrueAbove ==
    (IsCountQuery(call) /\ call.done /\ ~ m_imap /\ hist.quiet /\ hist.above)
        => call.ret = TrueCount(call.op)

\* A count query that rescanned and returned the true total of two files
\* after agents had written during an earlier update_cache().
C18_Witness ==
    /\ call.op = "total" /\ call.done /\ ~ m_imap
    /\ hist.quiet /\ hist.above /\ hist.raced
    /\ call.again /\ call.scans = 1
    /\ TrueTotal = 2 /\ call.ret = 2

(* -------------- the loop of generate_filename() under fairness --------- *)

\* The last clock value of the model: it stands for the times after the
\* other agents have stopped filling the directory.
Horizon == 9 + MaxTicks

\* The names the agents fill a directory with: the names of Collisions that
\* are built from a clock value before the horizon.
Refill(d) ==
    Collisions(d) \ {FileName(Horizon, x % 1000, d = "new") : x \in 0..MaxRand}

NextLoop ==
    \/ \E isnew \in BOOLEAN : GenerateFilename(isnew)
    \/ GenLoop
    \/ \E d \in Dirs : \E n \in Refill(d) : ExtCreate(d, n)
    \/ Tick

\* The loop keeps running and the clock keeps advancing.
SpecLoop == Init /\ [][NextLoop]_vars /\ WF_vars(GenLoop) /\ WF_vars(Tick)

\* Every name the loop can build from the present clock value exists in
\* the directory it writes to.
AllTaken ==
    \A x \in 0..MaxRand :
        exists(Prefix(TargetDir(frame.is_new))
                   \o FileName(clock, x % 1000, frame.is_new))

\* C19: on a valid folder the loop of generate_filename() eventually returns
\* a path when the clock advances and the directory is not refilled for
\* ever; and no round returns while every name of the present clock value
\* exists.
C19_LoopEnds ==
    /\ (pc = "loop") ~> (pc = "idle" /\ call.done /\ call.path # <<>>)
    /\ [][(GenLoop /\ AllTaken) => (pc' = "loop" /\ ~ call'.done)]_vars

\* generate_filename() returned a name of the second clock value after it
\* had met existing names, every name of the first clock value being taken
\* in cur/.
C19_Witness ==
    /\ call.op = "generate_filename" /\ call.done /\ call.retried
    /\ clock = 10 /\ genlog # <<>> /\ genlog[1].t = 10 /\ ~ genlog[1].is_new
    /\ call.path = genlog[1].path
    /\ \A x \in 0..1 : exists(Prefix("cur") \o FileName(9, x, FALSE))

(* ------------------- what the operations leave alone ------------------- *)

\* Every operation that is called on a folder, with mail agents delivering
\* into new/.
NextFrame ==
    \/ UpdateCache
    \/ TotalMessages
    \/ UnreadMessages
    \/ GetMessages
    \/ BumpMtime
    \/ \E msg \in MsgPaths : SaveMessage(msg)
    \/ GenLoop
    \/ SaveCopy
    \/ \E n \in MailNames : ExtCreate("new", n)

SpecFrame == Init /\ [][NextFrame]_vars

\* C20: on an IMAP folder update_cache() changes nothing and makes no scan,
\* no step assigns m_total or m_unread, and a count query returns the
\* member as it has been since the first query read it; and no step on any
\* folder changes m_path or m_imap.
C20_RemoteCacheUntouched ==
    [][/\ m_path' = m_path
       /\ m_imap' = m_imap
       /\ m_imap =>
            /\ NotAssigned(m_total, m_total')
            /\ NotAssigned(m_unread, m_unread')
            /\ UpdateCache =>
                  (UNCHANGED <<obj, disk, lastScan>> /\ call'.scans = 0)
            /\ TotalMessages =>
                  /\ call'.ret = m_total' /\ call'.scans = 0
                  /\ m_total # Indeterminate => call'.ret = m_total
            /\ UnreadMessages =>
                  /\ call'.ret = m_unread' /\ call'.scans = 0
                  /\ m_unread # Indeterminate => call'.ret = m_unread]_vars

\* A total query on an IMAP folder that was queried before, after the time
\* was bumped and mail was delivered, returning what it returned at first.
C20_Witness ==
    /\ m_imap /\ call.op = "total" /\ call.again /\ hist.queried
    /\ m_modified >= 1 /\ TrueTotal >= 1
    /\ m_total \in Uninit /\ call.ret = m_total

====
